---- MODULE Spec2Model ----
(***************************************************************************)
(* Order intake and summary report of the Google Apps Script web app:      *)
(* doPost appends one row per line item to the Orders sheet, doGet returns *)
(* the rows as records, updateSummary aggregates the rows into a priced    *)
(* report.  Two variants of updateSummary exist: the per-combo one         *)
(* (google-apps-script.js) and the per-product one (unnamed/part_001).     *)
(*                                                                         *)
(* The cells of the Orders sheet are TLA+ strings; where the code          *)
(* concatenates, splits, trims, sorts or formats strings they are taken as *)
(* sequences of UTF-16 code units (Code), and so are the cells of the      *)
(* Summary grid.  Prices are held in cents (175.00 is 17500), so sums are  *)
(* exact.                                                                  *)
(***************************************************************************)
EXTENDS Integers, Sequences, FiniteSets, TLC

VARIABLES
  sheetName,   \* name of the spreadsheet's first sheet
  sheet,       \* rows of that sheet, each a sequence of 12 cells
  clock,       \* the time new Date() reads, in milliseconds
  proc,        \* the running doPost calls: locals and position of each
  since,       \* doPost calls completed since the last doGet
  between,     \* doPost calls completed between the last two doGets
  prevGet,     \* orders returned by the doGet before the last
  getResp,     \* orders returned by the last doGet
  data,        \* updateSummary: the rows read by getDataRange().getValues()
  summary,     \* updateSummary: what the last run computed and wrote
  qty,         \* getPriceTier: two quantities ...
  tier         \* ... and the tiers returned for them

vars == <<sheetName, sheet, clock, proc, since, between, prevGet, getResp,
          data, summary, qty, tier>>

---------------------------------------------------------------------------
(* Bounds of the model *)

MaxQty == 80          \* quantities given to getPriceTier
MaxClock == 1         \* ticks of the clock
MaxComboRows == 7     \* data rows, per-combo summary
MaxKeyRows == 4       \* data rows, grouping keys
MaxProductRows == 18  \* data rows, per-product summary
MaxSeqRows == 3       \* data rows, doPost and doGet one at a time
MaxSince == 1         \* doPost calls between two doGets

---------------------------------------------------------------------------
(* Strings as UTF-16 code units *)

Code ==
     ("" :> <<>>)
  @@ ("Better Sweater Jacket" :> <<66, 101, 116, 116, 101, 114, 32, 83, 119, 101, 97, 116, 101, 114, 32, 74, 97, 99, 107, 101, 116>>)
  @@ ("Better Sweater Vest" :> <<66, 101, 116, 116, 101, 114, 32, 83, 119, 101, 97, 116, 101, 114, 32, 86, 101, 115, 116>>)
  @@ ("A" :> <<65>>)
  @@ ("B" :> <<66>>)
  @@ ("C" :> <<67>>)
  @@ ("A|B" :> <<65, 124, 66>>)
  @@ ("B|C" :> <<66, 124, 67>>)
  @@ ("x" :> <<120>>)
  @@ ("Black" :> <<66, 108, 97, 99, 107>>)
  @@ ("Birch White" :> <<66, 105, 114, 99, 104, 32, 87, 104, 105, 116, 101>>)
  @@ ("Stonewash" :> <<83, 116, 111, 110, 101, 119, 97, 115, 104>>)
  @@ ("Gray" :> <<71, 114, 97, 121>>)
  @@ ("Navy" :> <<78, 97, 118, 121>>)
  @@ (" " :> <<32>>)
  @@ ("Sam" :> <<83, 97, 109>>)
  @@ ("Product" :> <<80, 114, 111, 100, 117, 99, 116>>)
  @@ ("Color" :> <<67, 111, 108, 111, 114>>)
  @@ ("Embroidered Name" :> <<69, 109, 98, 114, 111, 105, 100, 101, 114, 101, 100, 32, 78, 97, 109, 101>>)
  @@ ("ORDER SUMMARY" :>
       <<79, 82, 68, 69, 82, 32, 83, 85, 77, 77, 65, 82, 89>>)
  @@ ("PRODUCT + COLOR BREAKDOWN (Tier is per combo)" :>
       <<80, 82, 79, 68, 85, 67, 84, 32, 43, 32, 67, 79, 76, 79, 82, 32,
         66, 82, 69, 65, 75, 68, 79, 87, 78, 32, 40, 84, 105, 101, 114,
         32, 105, 115, 32, 112, 101, 114, 32, 99, 111, 109, 98, 111, 41>>)
  @@ ("Qty" :>
       <<81, 116, 121>>)
  @@ ("Tier" :>
       <<84, 105, 101, 114>>)
  @@ ("Unit Price" :>
       <<85, 110, 105, 116, 32, 80, 114, 105, 99, 101>>)
  @@ ("Subtotal" :>
       <<83, 117, 98, 116, 111, 116, 97, 108>>)
  @@ ("Status" :>
       <<83, 116, 97, 116, 117, 115>>)
  @@ ("N/A" :>
       <<78, 47, 65>>)
  @@ ("-" :>
       <<45>>)
  @@ ("+" :>
       <<43>>)
  @@ ("NOT FULFILLED" :>
       <<78, 79, 84, 32, 70, 85, 76, 70, 73, 76, 76, 69, 68>>)
  @@ ("OK" :>
       <<79, 75>>)
  @@ ("TOTALS (fulfilled items only)" :>
       <<84, 79, 84, 65, 76, 83, 32, 40, 102, 117, 108, 102, 105, 108,
         108, 101, 100, 32, 105, 116, 101, 109, 115, 32, 111, 110, 108,
         121, 41>>)
  @@ ("Total Items:" :>
       <<84, 111, 116, 97, 108, 32, 73, 116, 101, 109, 115, 58>>)
  @@ ("Product Cost:" :>
       <<80, 114, 111, 100, 117, 99, 116, 32, 67, 111, 115, 116, 58>>)
  @@ ("Embroidery:" :>
       <<69, 109, 98, 114, 111, 105, 100, 101, 114, 121, 58>>)
  @@ ("GRAND TOTAL:" :>
       <<71, 82, 65, 78, 68, 32, 84, 79, 84, 65, 76, 58>>)
  @@ ("WARNING: Combos marked 'NOT FULFILLED' are below the 6-item minimum and will not be ordered." :>
       <<87, 65, 82, 78, 73, 78, 71, 58, 32, 67, 111, 109, 98, 111, 115,
         32, 109, 97, 114, 107, 101, 100, 32, 39, 78, 79, 84, 32, 70,
         85, 76, 70, 73, 76, 76, 69, 68, 39, 32, 97, 114, 101, 32, 98,
         101, 108, 111, 119, 32, 116, 104, 101, 32, 54, 45, 105, 116,
         101, 109, 32, 109, 105, 110, 105, 109, 117, 109, 32, 97, 110,
         100, 32, 119, 105, 108, 108, 32, 110, 111, 116, 32, 98, 101,
         32, 111, 114, 100, 101, 114, 101, 100, 46>>)
  @@ ("No orders yet." :>
       <<78, 111, 32, 111, 114, 100, 101, 114, 115, 32, 121, 101, 116,
         46>>)
  @@ ("Price Tier:" :>
       <<80, 114, 105, 99, 101, 32, 84, 105, 101, 114, 58>>)
  @@ ("+ pcs" :>
       <<43, 32, 112, 99, 115>>)
  @@ ("PRODUCT BREAKDOWN" :>
       <<80, 82, 79, 68, 85, 67, 84, 32, 66, 82, 69, 65, 75, 68, 79, 87,
         78>>)
  @@ ("Embroidery Fees" :>
       <<69, 109, 98, 114, 111, 105, 100, 101, 114, 121, 32, 70, 101,
         101, 115>>)
  @@ ("Product Total:" :>
       <<80, 114, 111, 100, 117, 99, 116, 32, 84, 111, 116, 97, 108, 58>>)
  @@ ("Embroidery Total:" :>
       <<69, 109, 98, 114, 111, 105, 100, 101, 114, 121, 32, 84, 111,
         116, 97, 108, 58>>)
  @@ ("COLOR BREAKDOWN BY PRODUCT" :>
       <<67, 79, 76, 79, 82, 32, 66, 82, 69, 65, 75, 68, 79, 87, 78, 32,
         66, 89, 32, 80, 82, 79, 68, 85, 67, 84>>)
  @@ (" x " :>
       <<32, 120, 32>>)
  @@ (" = " :>
       <<32, 61, 32>>)

\* The string whose code units are cs.
Decode(cs) == CHOOSE s \in DOMAIN Code : Code[s] = cs

Bar == 124

\* a < b in the order Array.prototype.sort() uses without a comparator:
\* by code unit, a proper prefix first.
RECURSIVE StrLess(_, _)
StrLess(a, b) ==
  IF b = <<>> THEN FALSE
  ELSE IF a = <<>> THEN TRUE
  ELSE IF Head(a) # Head(b) THEN Head(a) < Head(b)
  ELSE StrLess(Tail(a), Tail(b))

\* Array.prototype.sort() of a set of distinct keys: ascending sequence.
RECURSIVE SortKeys(_)
SortKeys(S) ==
  IF S = {} THEN <<>>
  ELSE LET m == CHOOSE k \in S : \A o \in S \ {k} : StrLess(k, o)
       IN  <<m>> \o SortKeys(S \ {m})

WhiteSpace == {9, 10, 11, 12, 13, 32}

\* String.prototype.trim() on code units.
RECURSIVE TrimLeft(_)
TrimLeft(cs) ==
  IF cs # <<>> /\ Head(cs) \in WhiteSpace THEN TrimLeft(Tail(cs)) ELSE cs

RECURSIVE TrimRight(_)
TrimRight(cs) ==
  IF cs # <<>> /\ cs[Len(cs)] \in WhiteSpace
  THEN TrimRight(SubSeq(cs, 1, Len(cs) - 1)) ELSE cs

Trim(cs) == TrimRight(TrimLeft(cs))

\* String.prototype.split("|") on code units: the parts between the bars.
RECURSIVE Split(_, _)
Split(cs, cur) ==
  IF cs = <<>> THEN <<cur>>
  ELSE IF Head(cs) = Bar THEN <<cur>> \o Split(Tail(cs), <<>>)
  ELSE Split(Tail(cs), Append(cur, Head(cs)))

\* Array.prototype.indexOf, 1-based; 0 when absent (the code's -1).
IndexOf(seq, v) ==
  IF \E i \in 1..Len(seq) : seq[i] = v
  THEN CHOOSE i \in 1..Len(seq) : seq[i] = v /\ \A j \in 1..(i - 1) : seq[j] # v
  ELSE 0

---------------------------------------------------------------------------
(* Pricing configuration *)

Tiers == {6, 18, 50, 72}

PRICING ==
     ("Better Sweater Jacket" :> (6 :> 17500 @@ 18 :> 17358 @@ 50 :> 16268 @@ 72 :> 15968))
  @@ ("Better Sweater Vest" :> (6 :> 13288 @@ 18 :> 13128 @@ 50 :> 12358 @@ 72 :> 11988))
  @@ ("Better Sweater Quarter Zip" :> (6 :> 15500 @@ 18 :> 15200 @@ 50 :> 14268 @@ 72 :> 13958))

EMBROIDERY_FEE == 800

GRAY_COLORS == <<"Birch White", "Stonewash">>

normalizeColor(color) ==
  IF IndexOf(GRAY_COLORS, color) # 0 THEN "Gray" ELSE color

\* The breakpoint 18 is reached only above 18.
getPriceTierSkips18(q) ==
  IF q >= 72 THEN 72
  ELSE IF q >= 50 THEN 50
  ELSE IF q > 18 THEN 18
  ELSE 6

getPriceTier(q) ==
  IF q >= 72 THEN 72
  ELSE IF q >= 50 THEN 50
  ELSE IF q >= 18 THEN 18
  ELSE 6

\* String(n) of an integer n >= 0, as code units.
RECURSIVE Digits(_)
Digits(n) ==
  IF n < 10 THEN <<48 + n>> ELSE Digits(n \div 10) \o <<48 + (n % 10)>>

\* "$" + x.toFixed(2) of an amount held in cents, as code units.
Money(cents) ==
  <<36>> \o Digits(cents \div 100) \o <<46>>
         \o <<48 + ((cents % 100) \div 10), 48 + (cents % 10)>>

---------------------------------------------------------------------------
(* The Orders sheet and doPost *)

HEADER ==
  <<"Timestamp", "Name", "Phone", "Email", "Position", "Product", "Style",
    "Size", "Color", "Logo", "Embroidered Name", "Thread Color">>

\* new Date().toISOString() at time c.
ISO(c) ==
  <<"2025-01-01T00:00:00.000Z", "2025-01-01T00:00:00.001Z",
    "2025-01-01T00:00:00.002Z", "2025-01-01T00:00:00.003Z">>[c + 1]

\* A JSON null among the items.
Null == [isNull |-> TRUE]
IsNull(v) == "isNull" \in DOMAIN v

\* obj.f || "" for an optional string property.
OrEmpty(obj, f) == IF f \in DOMAIN obj /\ obj[f] # "" THEN obj[f] ELSE ""

ErrorResp(msg) == [status |-> "error", message |-> msg]
OkResp == [status |-> "ok"]
NoResp == [status |-> "none"]

\* The thread color is left out of the row.
ItemRowNoThread(timestamp, d, item) ==
  <<timestamp, d["name"], d["phone"], d["email"], d["position"],
    item["product"], item["style"], item["size"], item["color"], item["logo"],
    OrEmpty(item, "embroideredName"), "">>

\* The row doPost appends for one item.
ItemRow(timestamp, d, item) ==
  <<timestamp, d["name"], d["phone"], d["email"], d["position"],
    item["product"], item["style"], item["size"], item["color"], item["logo"],
    OrEmpty(item, "embroideredName"), OrEmpty(item, "threadColor")>>

\* The locals of a doPost call that has not run yet.
NewCall(contents) ==
  [pc |-> "parse", contents |-> contents, timestamp |-> "", k |-> 1, resp |-> NoResp]

IdleCall ==
  [pc |-> "idle", contents |-> [json |-> FALSE], timestamp |-> "", k |-> 1, resp |-> NoResp]

\* const data = JSON.parse(e.postData.contents), once it has parsed.
PostData(l) == l.contents.value

Thrown(l, g, msg) ==
  [l |-> [l EXCEPT !.pc = "done", !.resp = ErrorResp(msg)],
   sheetName |-> g.sheetName, sheet |-> g.sheet]

\* sheet.getLastRow() === 0
HeaderNeeded(rows) == Len(rows) = 0

\* One step of doPost: l are the call's locals, g the spreadsheet and clock
\* it runs against.  Every step reads or writes the spreadsheet at most once.
PostStep(l, g) ==
  CASE l.pc = "parse" ->
         IF ~l.contents.json
         THEN Thrown(l, g, "SyntaxError")
         ELSE [l |-> [l EXCEPT !.pc = "getSheet"],
               sheetName |-> g.sheetName, sheet |-> g.sheet]
    [] l.pc = "getSheet" ->
         [l |-> [l EXCEPT !.pc = "checkHeader"],
          sheetName |-> "Orders", sheet |-> g.sheet]
    [] l.pc = "checkHeader" ->
         [l |-> [l EXCEPT !.pc = IF HeaderNeeded(g.sheet) THEN "writeHeader" ELSE "stamp"],
          sheetName |-> g.sheetName, sheet |-> g.sheet]
    [] l.pc = "writeHeader" ->
         [l |-> [l EXCEPT !.pc = "stamp"],
          sheetName |-> g.sheetName, sheet |-> Append(g.sheet, HEADER)]
    [] l.pc = "stamp" ->
         [l |-> [l EXCEPT !.pc = "forEach", !.timestamp = ISO(g.clock)],
          sheetName |-> g.sheetName, sheet |-> g.sheet]
    [] l.pc = "forEach" ->
         IF "items" \notin DOMAIN PostData(l)
         THEN Thrown(l, g, "TypeError")
         ELSE IF l.k > Len(PostData(l)["items"])
         THEN [l |-> [l EXCEPT !.pc = "done", !.resp = OkResp],
               sheetName |-> g.sheetName, sheet |-> g.sheet]
         ELSE IF IsNull(PostData(l)["items"][l.k])
         THEN Thrown(l, g, "TypeError")
         ELSE [l |-> [l EXCEPT !.k = @ + 1],
               sheetName |-> g.sheetName,
               sheet |-> Append(g.sheet,
                           ItemRow(l.timestamp, PostData(l), PostData(l)["items"][l.k]))]

\* A whole doPost call with no other call running: its steps to the end.
RECURSIVE RunPost(_, _)
RunPost(l, g) ==
  IF l.pc = "done" THEN [l |-> l, sheetName |-> g.sheetName, sheet |-> g.sheet]
  ELSE LET r == PostStep(l, g)
       IN  RunPost(r.l, [sheetName |-> r.sheetName, sheet |-> r.sheet, clock |-> g.clock])

---------------------------------------------------------------------------
(* doGet *)

\* headers.forEach(function(header, i) { order[header] = row[i]; })
OrderOf(headers, row) ==
  [h \in {headers[i] : i \in 1..Len(headers)} |->
     row[CHOOSE i \in 1..Len(headers) :
           headers[i] = h /\ \A j \in (i + 1)..Len(headers) : headers[j] # h]]

\* The orders doGet returns for the rows getValues() read.
GetOrders(rows) ==
  IF Len(rows) <= 1 THEN <<>>
  ELSE [i \in 1..(Len(rows) - 1) |-> OrderOf(rows[1], rows[i + 1])]

---------------------------------------------------------------------------
(* updateSummary, per-combo variant (google-apps-script.js) *)

Key(product, color) == Code[product] \o <<Bar>> \o Code[color]

\* embName && embName.toString().trim()
HasEmbroidery(embName) == embName # "" /\ Trim(Code[embName]) # <<>>

NoGroups == [k \in {} |-> 0]

\* The aggregate stops at the first row without a product.
RECURSIVE AggregateStopsAtEmpty(_, _, _)
AggregateStopsAtEmpty(rows, i, pcd) ==
  IF i > Len(rows) \/ rows[i][IndexOf(rows[1], "Product")] = "" THEN pcd
  ELSE LET product == rows[i][IndexOf(rows[1], "Product")]
           color == normalizeColor(rows[i][IndexOf(rows[1], "Color")])
           key == Key(product, color)
           cur == IF key \in DOMAIN pcd THEN pcd[key]
                  ELSE [product |-> product, color |-> color, count |-> 0,
                        embroideryCount |-> 0]
           nxt == [cur EXCEPT
                     !.count = @ + 1,
                     !.embroideryCount =
                        IF HasEmbroidery(rows[i][IndexOf(rows[1], "Embroidered Name")])
                        THEN @ + 1 ELSE @]
       IN  AggregateStopsAtEmpty(rows, i + 1, (key :> nxt) @@ pcd)

\* The loop over the data rows from row i on: productColorData after it.
RECURSIVE Aggregate(_, _, _)
Aggregate(rows, i, pcd) ==
  IF i > Len(rows) THEN pcd
  ELSE LET row == rows[i]
           product == row[IndexOf(rows[1], "Product")]
           color == normalizeColor(row[IndexOf(rows[1], "Color")])
           embName == row[IndexOf(rows[1], "Embroidered Name")]
           key == Key(product, color)
           cur == IF key \in DOMAIN pcd THEN pcd[key]
                  ELSE [product |-> product, color |-> color, count |-> 0,
                        embroideryCount |-> 0]
           nxt == [cur EXCEPT
                     !.count = @ + 1,
                     !.embroideryCount = IF HasEmbroidery(embName) THEN @ + 1 ELSE @]
       IN  IF product = "" THEN Aggregate(rows, i + 1, pcd)
           ELSE Aggregate(rows, i + 1, (key :> nxt) @@ pcd)

\* PRICING[product] ? PRICING[product][tier] : 0, for product names that are
\* not names of members every object inherits.
UnitPrice(product, t) ==
  IF product \in DOMAIN PRICING THEN PRICING[product][t] ELSE 0

NoTotals ==
  [grandTotalItems |-> 0, grandTotalCost |-> 0, grandTotalEmbroidery |-> 0,
   hasUnfulfilled |-> FALSE, comboRows |-> <<>>]

\* What the loop over comboKeys computes for one combo (the status without
\* its leading sign).
ComboRow(combo) ==
  [product |-> combo.product, color |-> combo.color, count |-> combo.count,
   tier |-> getPriceTier(combo.count),
   unitPrice |-> UnitPrice(combo.product, getPriceTier(combo.count)),
   subtotal |-> combo.count * UnitPrice(combo.product, getPriceTier(combo.count)),
   embroideryCount |-> combo.embroideryCount,
   embFees |-> combo.embroideryCount * EMBROIDERY_FEE,
   status |-> IF combo.count < 6 THEN "NOT FULFILLED" ELSE "OK"]

\* Every combo is added to the totals, fulfilled or not.
ComboStepAddsAll(acc, combo) ==
  [grandTotalItems |-> acc.grandTotalItems + combo.count,
   grandTotalCost |-> acc.grandTotalCost + ComboRow(combo).subtotal,
   grandTotalEmbroidery |-> acc.grandTotalEmbroidery + ComboRow(combo).embFees,
   hasUnfulfilled |-> acc.hasUnfulfilled \/ combo.count < 6,
   comboRows |-> Append(acc.comboRows, ComboRow(combo))]

\* One pass of the loop over comboKeys: the totals and comboRows after it.
ComboStep(acc, combo) ==
  IF combo.count < 6
  THEN [acc EXCEPT !.hasUnfulfilled = TRUE,
                   !.comboRows = Append(@, ComboRow(combo))]
  ELSE [grandTotalItems |-> acc.grandTotalItems + combo.count,
        grandTotalCost |-> acc.grandTotalCost + ComboRow(combo).subtotal,
        grandTotalEmbroidery |-> acc.grandTotalEmbroidery + ComboRow(combo).embFees,
        hasUnfulfilled |-> acc.hasUnfulfilled,
        comboRows |-> Append(acc.comboRows, ComboRow(combo))]

RECURSIVE ComboLoop(_, _, _, _)
ComboLoop(pcd, comboKeys, k, acc) ==
  IF k > Len(comboKeys) THEN acc
  ELSE ComboLoop(pcd, comboKeys, k + 1, ComboStep(acc, pcd[comboKeys[k]]))

\* The cells of the grid are held as code units.
Blank7 == <<<<>>, <<>>, <<>>, <<>>, <<>>, <<>>, <<>>>>

Label7(text) == <<Code[text], <<>>, <<>>, <<>>, <<>>, <<>>, <<>>>>

ComboCells(cr) ==
  <<Code[cr.product], Code[cr.color], Digits(cr.count),
    IF cr.count < 6 THEN Code["N/A"] ELSE Digits(cr.tier) \o Code["+"],
    IF cr.count < 6 THEN Code["-"] ELSE Money(cr.unitPrice),
    IF cr.count < 6 THEN Code["-"] ELSE Money(cr.subtotal),
    Code[cr.status]>>

\* The loop over comboRows from row j on: the grid rows it pushes.
RECURSIVE Breakdown(_, _, _)
Breakdown(comboRows, j, currentProduct) ==
  IF j > Len(comboRows) THEN <<>>
  ELSE (IF comboRows[j].product # currentProduct /\ currentProduct # ""
        THEN <<Blank7>> ELSE <<>>)
       \o <<ComboCells(comboRows[j])>>
       \o Breakdown(comboRows, j + 1, comboRows[j].product)

\* What updateSummary computes from the rows it read, and the grid it writes.
SummaryOf(rows) ==
  IF Len(rows) <= 1
  THEN [noOrders |-> TRUE, output |-> <<<<Code["No orders yet."]>>>>]
  ELSE LET pcd == Aggregate(rows, 2, NoGroups)
           comboKeys == SortKeys(DOMAIN pcd)
           t == ComboLoop(pcd, comboKeys, 1, NoTotals)
           table == Breakdown(t.comboRows, 1, "")
           top == <<Label7("ORDER SUMMARY"),
                    Blank7,
                    Label7("PRODUCT + COLOR BREAKDOWN (Tier is per combo)"),
                    <<Code["Product"], Code["Color"], Code["Qty"], Code["Tier"],
                      Code["Unit Price"], Code["Subtotal"], Code["Status"]>>>>
           totals == <<Blank7,
                       Label7("TOTALS (fulfilled items only)"),
                       <<Code["Total Items:"], Digits(t.grandTotalItems), <<>>,
                         Code["Product Cost:"], Money(t.grandTotalCost), <<>>, <<>>>>,
                       <<<<>>, <<>>, <<>>, Code["Embroidery:"],
                         Money(t.grandTotalEmbroidery), <<>>, <<>>>>,
                       <<<<>>, <<>>, <<>>, Code["GRAND TOTAL:"],
                         Money(t.grandTotalCost + t.grandTotalEmbroidery), <<>>, <<>>>>>>
           warning == IF t.hasUnfulfilled
                      THEN <<Blank7,
                             Label7("WARNING: Combos marked 'NOT FULFILLED' are below the 6-item minimum and will not be ordered.")>>
                      ELSE <<>>
       IN  [noOrders |-> FALSE,
            productColorData |-> pcd,
            comboKeys |-> comboKeys,
            comboRows |-> t.comboRows,
            grandTotalItems |-> t.grandTotalItems,
            grandTotalCost |-> t.grandTotalCost,
            grandTotalEmbroidery |-> t.grandTotalEmbroidery,
            hasUnfulfilled |-> t.hasUnfulfilled,
            tableHeader |-> 4,
            totalsTitle |-> 4 + Len(table) + 2,
            output |-> top \o table \o totals \o warning]

---------------------------------------------------------------------------
(* updateSummary, per-product variant (unnamed/part_001) *)

NoCounts ==
  [productCounts |-> NoGroups, productColorCounts |-> NoGroups,
   embroideryCount |-> NoGroups]

Bump(counts, k) == (k :> ((IF k \in DOMAIN counts THEN counts[k] ELSE 0) + 1)) @@ counts

\* The loop over the data rows from row i on: the three count tables after it.
RECURSIVE CountRows(_, _, _)
CountRows(rows, i, c) ==
  IF i > Len(rows) THEN c
  ELSE LET row == rows[i]
           product == row[IndexOf(rows[1], "Product")]
           color == normalizeColor(row[IndexOf(rows[1], "Color")])
           embName == row[IndexOf(rows[1], "Embroidered Name")]
       IN  IF product = "" THEN CountRows(rows, i + 1, c)
           ELSE CountRows(rows, i + 1,
                  [productCounts |-> Bump(c.productCounts, product),
                   productColorCounts |-> Bump(c.productColorCounts, Key(product, color)),
                   embroideryCount |-> IF HasEmbroidery(embName)
                                       THEN Bump(c.embroideryCount, product)
                                       ELSE c.embroideryCount])

\* for (var p in productCounts) grandTotal += productCounts[p]
RECURSIVE SumCounts(_)
SumCounts(counts) ==
  IF DOMAIN counts = {} THEN 0
  ELSE LET p == CHOOSE q \in DOMAIN counts : TRUE
       IN  counts[p] + SumCounts([q \in DOMAIN counts \ {p} |-> counts[q]])

\* The tier is resolved from the product's own quantity.
ProductRowOwnTier(prod, q, t, embQty) ==
  [product |-> prod, qty |-> q,
   unitPrice |-> UnitPrice(prod, getPriceTier(q)),
   subtotal |-> q * UnitPrice(prod, getPriceTier(q)),
   embQty |-> embQty, embFees |-> embQty * EMBROIDERY_FEE]

\* One pass of the loop over products: what it computes for product prod,
\* of quantity q, under tier t.
ProductRow(prod, q, t, embQty) ==
  [product |-> prod, qty |-> q,
   unitPrice |-> UnitPrice(prod, t),
   subtotal |-> q * UnitPrice(prod, t),
   embQty |-> embQty, embFees |-> embQty * EMBROIDERY_FEE]

ProductRows(c, products, t) ==
  [j \in 1..Len(products) |->
     LET prod == Decode(products[j])
     IN  ProductRow(prod, c.productCounts[prod], t,
                    IF prod \in DOMAIN c.embroideryCount
                    THEN c.embroideryCount[prod] ELSE 0)]

RECURSIVE SumField(_, _)
SumField(rowsP, f) ==
  IF rowsP = <<>> THEN 0 ELSE rowsP[1][f] + SumField(Tail(rowsP), f)

Blank5 == <<<<>>, <<>>, <<>>, <<>>, <<>>>>

Label5(text) == <<Code[text], <<>>, <<>>, <<>>, <<>>>>

ProductCells(r) ==
  <<Code[r.product], Digits(r.qty), Money(r.unitPrice), Money(r.subtotal),
    IF r.embQty > 0
    THEN Digits(r.embQty) \o Code[" x "] \o Money(EMBROIDERY_FEE) \o Code[" = "]
           \o Money(r.embFees)
    ELSE Code["-"]>>

\* The loop over colorKeys from key k on: the grid rows it pushes.
RECURSIVE ColorBreakdown(_, _, _, _)
ColorBreakdown(counts, colorKeys, k, currentProduct) ==
  IF k > Len(colorKeys) THEN <<>>
  ELSE LET parts == Split(colorKeys[k], <<>>)
           prodName == Decode(parts[1])
           colorName == Decode(parts[2])
       IN  (IF prodName # currentProduct /\ currentProduct # ""
            THEN <<Blank5>> ELSE <<>>)
           \o <<<<Code[prodName], Code[colorName], Digits(counts[colorKeys[k]]),
                  <<>>, <<>>>>>>
           \o ColorBreakdown(counts, colorKeys, k + 1, prodName)

\* What the per-product updateSummary computes from the rows it read, and
\* the grid it writes (a numeric cell by its decimal digits).
ProductSummaryOf(rows) ==
  IF Len(rows) <= 1
  THEN [noOrders |-> TRUE, output |-> <<<<Code["No orders yet."]>>>>]
  ELSE LET c == CountRows(rows, 2, NoCounts)
           grandTotal == SumCounts(c.productCounts)
           t == getPriceTier(grandTotal)
           products == SortKeys({Code[p] : p \in DOMAIN c.productCounts})
           rowsP == ProductRows(c, products, t)
           productSubtotal == SumField(rowsP, "subtotal")
           embroiderySubtotal == SumField(rowsP, "embFees")
           colorKeys == SortKeys(DOMAIN c.productColorCounts)
           top == <<Label5("ORDER SUMMARY"),
                    <<Code["Total Items:"], Digits(grandTotal), <<>>, Code["Price Tier:"],
                      Digits(t) \o Code["+ pcs"]>>,
                    Blank5,
                    Label5("PRODUCT BREAKDOWN"),
                    <<Code["Product"], Code["Qty"], Code["Unit Price"], Code["Subtotal"],
                      Code["Embroidery Fees"]>>>>
           mid == <<Blank5,
                    <<<<>>, <<>>, Code["Product Total:"], Money(productSubtotal), <<>>>>,
                    <<<<>>, <<>>, Code["Embroidery Total:"], Money(embroiderySubtotal), <<>>>>,
                    <<<<>>, <<>>, Code["GRAND TOTAL:"],
                      Money(productSubtotal + embroiderySubtotal), <<>>>>,
                    Blank5,
                    Label5("COLOR BREAKDOWN BY PRODUCT"),
                    <<Code["Product"], Code["Color"], Code["Qty"], <<>>, <<>>>>>>
       IN  [noOrders |-> FALSE,
            productCounts |-> c.productCounts,
            productColorCounts |-> c.productColorCounts,
            embroideryCount |-> c.embroideryCount,
            grandTotal |-> grandTotal,
            tier |-> t,
            productRows |-> rowsP,
            productSubtotal |-> productSubtotal,
            embroiderySubtotal |-> embroiderySubtotal,
            colorKeys |-> colorKeys,
            output |-> top \o [j \in 1..Len(rowsP) |-> ProductCells(rowsP[j])] \o mid
                       \o ColorBreakdown(c.productColorCounts, colorKeys, 1, "")]

---------------------------------------------------------------------------
(* Inputs *)

Person(n) ==
  ("name" :> n) @@ ("phone" :> "555-0100") @@ ("email" :> "a@b.c") @@ ("position" :> "RN")

\* A line item without the optional properties.
Item(product, color) ==
  ("product" :> product) @@ ("style" :> "Mens") @@ ("size" :> "M")
    @@ ("color" :> color) @@ ("logo" :> "Left")

\* A line item with an embroidered name and its thread color.
ItemEmb(product, color, emb) ==
  Item(product, color) @@ ("embroideredName" :> emb) @@ ("threadColor" :> "White")

Submission(n, items) == [json |-> TRUE, value |-> Person(n) @@ ("items" :> items)]
NoItems(n) == [json |-> TRUE, value |-> Person(n)]
Unparsable == [json |-> FALSE]

Repeat(item, n) == [i \in 1..n |-> item]

Jacket == "Better Sweater Jacket"
Vest == "Better Sweater Vest"

ComboItems ==
  {ItemEmb(Jacket, "Black", "Sam"), Item(Jacket, "Birch White"),
   ItemEmb(Vest, "Stonewash", " ")}

KeyItems ==
  {ItemEmb("A", "A", "Sam"), Item("A|B", "C"), ItemEmb("A", "C", " "),
   Item("A", "B|C"), ItemEmb("", "x", "Sam")}

ProductItems == {ItemEmb(Jacket, "Black", "Sam"), Item(Vest, "Navy")}

SeqContents ==
  {Unparsable, NoItems("Ann"), Submission("Ann", <<>>),
   Submission("Ann", <<ItemEmb(Jacket, "Black", "Sam")>>),
   Submission("Bob", <<Item(Vest, "Navy"), ItemEmb(Jacket, "Black", "Sam")>>),
   Submission("Bob", <<Item(Vest, "Navy"), Null>>)}

Procs == {"p1", "p2"}

ConcContents(p) ==
  {Submission(p, <<Item(Vest, "Navy"), ItemEmb(Jacket, "Black", "Sam")>>),
   Submission(p, <<Item(Vest, "Navy")>>)}

---------------------------------------------------------------------------
(* Actions *)

NoSummary == [noOrders |-> TRUE, output |-> <<>>]

Spreadsheet == [sheetName |-> sheetName, sheet |-> sheet, clock |-> clock]

Idle == \A p \in Procs : proc[p].pc = "idle"

\* Time passes.
Tick ==
  /\ clock < MaxClock
  /\ clock' = clock + 1
  /\ UNCHANGED <<sheetName, sheet, proc, since, between, prevGet, getResp,
                 data, summary, qty, tier>>

\* doPost(e) from call to return with no other call running, the sheet
\* holding at most max data rows afterwards.
PostRuns(contents, max) ==
  LET r == RunPost(NewCall(contents), Spreadsheet)
  IN  /\ Idle
      /\ Len(r.sheet) <= max + 1
      /\ sheetName' = r.sheetName
      /\ sheet' = r.sheet

DoPost(contents, max) ==
  /\ PostRuns(contents, max)
  /\ UNCHANGED <<clock, proc, since, between, prevGet, getResp, data, summary,
                 qty, tier>>

\* The same, with the call kept for the doGet that follows.
DoPostObserved(contents, max) ==
  /\ Len(since) < MaxSince
  /\ PostRuns(contents, max)
  /\ since' = Append(since,
                [contents |-> contents,
                 resp |-> RunPost(NewCall(contents), Spreadsheet).l.resp,
                 timestamp |-> RunPost(NewCall(contents), Spreadsheet).l.timestamp,
                 before |-> sheet,
                 after |-> sheet'])
  /\ UNCHANGED <<clock, proc, between, prevGet, getResp, data, summary, qty, tier>>

\* doGet(e): one read of the sheet.
DoGet ==
  /\ getResp' = GetOrders(sheet)
  /\ prevGet' = getResp
  /\ between' = since
  /\ since' = <<>>
  /\ UNCHANGED <<sheetName, sheet, clock, proc, data, summary, qty, tier>>

\* updateSummary(), per-combo variant: one read of the sheet.
UpdateSummary ==
  /\ data' = sheet
  /\ summary' = SummaryOf(sheet)
  /\ UNCHANGED <<sheetName, sheet, clock, proc, since, between, prevGet, getResp,
                 qty, tier>>

\* updateSummary(), per-product variant.
UpdateSummaryProduct ==
  /\ data' = sheet
  /\ summary' = ProductSummaryOf(sheet)
  /\ UNCHANGED <<sheetName, sheet, clock, proc, since, between, prevGet, getResp,
                 qty, tier>>

\* A doPost call arrives.
Call(p, contents) ==
  /\ proc[p].pc = "idle"
  /\ proc' = [proc EXCEPT ![p] = NewCall(contents)]
  /\ UNCHANGED <<sheetName, sheet, clock, since, between, prevGet, getResp,
                 data, summary, qty, tier>>

\* A running doPost call takes its next step.
Step(p) ==
  /\ proc[p].pc \notin {"idle", "done"}
  /\ LET r == PostStep(proc[p], Spreadsheet)
     IN  /\ proc' = [proc EXCEPT ![p] = r.l]
         /\ sheetName' = r.sheetName
         /\ sheet' = r.sheet
  /\ UNCHANGED <<clock, since, between, prevGet, getResp, data, summary, qty, tier>>

\* getPriceTier is applied to both quantities.
ResolveTiers ==
  /\ tier = <<0, 0>>
  /\ tier' = <<getPriceTier(qty[1]), getPriceTier(qty[2])>>
  /\ UNCHANGED <<sheetName, sheet, clock, proc, since, between, prevGet, getResp,
                 data, summary, qty>>

---------------------------------------------------------------------------
(* Specifications *)

InitStore ==
  /\ sheetName = "Sheet1"
  /\ sheet = <<>>
  /\ clock = 0
  /\ proc = [p \in Procs |-> IdleCall]
  /\ since = <<>>
  /\ between = <<>>
  /\ prevGet = <<>>
  /\ getResp = <<>>
  /\ data = <<>>
  /\ summary = NoSummary

Init == InitStore /\ qty = <<0, 0>> /\ tier = <<0, 0>>

\* doPost and doGet calls, one at a time.
Next ==
  \/ Tick
  \/ \E c \in SeqContents : DoPostObserved(c, MaxSeqRows)
  \/ DoGet

Spec == Init /\ [][Next]_vars

\* doPost calls running at once, read by doGet and updateSummary.
NextConc ==
  \/ \E p \in Procs : \E c \in ConcContents(p) : Call(p, c)
  \/ \E p \in Procs : Step(p)
  \/ DoGet
  \/ UpdateSummary

SpecConc == Init /\ [][NextConc]_vars

\* The per-combo summary over sheets of priced products.
NextCombo ==
  \/ \E i \in ComboItems : DoPost(Submission("Ann", <<i>>), MaxComboRows)
  \/ UpdateSummary

SpecCombo == Init /\ [][NextCombo]_vars

\* The per-combo summary over products and colors that hold the key separator.
NextKeys ==
  \/ \E i \in KeyItems : DoPost(Submission("Ann", <<i>>), MaxKeyRows)
  \/ UpdateSummary

SpecKeys == Init /\ [][NextKeys]_vars

\* The per-product summary over submissions of three or six equal items.
NextProduct ==
  \/ \E i \in ProductItems : \E n \in {3, 6} :
        DoPost(Submission("Ann", Repeat(i, n)), MaxProductRows)
  \/ UpdateSummaryProduct

SpecProduct == Init /\ [][NextProduct]_vars

\* getPriceTier over pairs of quantities.
InitTier == InitStore /\ qty \in (0..MaxQty) \X (0..MaxQty) /\ tier = <<0, 0>>

SpecTier == InitTier /\ [][ResolveTiers]_vars

---------------------------------------------------------------------------
(* What the claims speak of, read off the rows alone *)

ProductCol == 6
ColorCol == 9
EmbCol == 11

\* The data rows that hold a product.
Counted(rows) == {i \in 2..Len(rows) : rows[i][ProductCol] # ""}

GroupOfRow(row) == <<row[ProductCol], normalizeColor(row[ColorCol])>>
KeyOfRow(row) == Key(row[ProductCol], normalizeColor(row[ColorCol]))

\* The rows counted under key k, and those of them with an embroidered name.
RowsOfKey(rows, k) == {i \in Counted(rows) : KeyOfRow(rows[i]) = k}
EmbRowsOfKey(rows, k) == {i \in RowsOfKey(rows, k) : HasEmbroidery(rows[i][EmbCol])}

\* The rows whose group reaches the minimum of 6.
Fulfilled(rows) == {i \in Counted(rows) : Cardinality(RowsOfKey(rows, KeyOfRow(rows[i]))) >= 6}

RECURSIVE SumOver(_, _)
SumOver(S, f) ==
  IF S = {} THEN 0
  ELSE LET x == CHOOSE y \in S : TRUE IN f[x] + SumOver(S \ {x}, f)

Computed == ~summary.noOrders

---------------------------------------------------------------------------
(* C2 *)

\* C2: for every quantity q >= 0, getPriceTier(q) is the largest of the
\* breakpoints 6, 18, 50, 72 that is <= q when q >= 6, and 6 when q < 6; and
\* getPriceTier is non-decreasing in q.
C2_TierIsLargestBreakpoint ==
  tier # <<0, 0>> =>
    /\ \A i \in {1, 2} :
         /\ qty[i] >= 6 =>
              /\ tier[i] \in Tiers
              /\ tier[i] <= qty[i]
              /\ \A b \in Tiers : b <= qty[i] => b <= tier[i]
         /\ qty[i] < 6 => tier[i] = 6
    /\ qty[1] <= qty[2] => tier[1] <= tier[2]

C2_Witness ==
  /\ tier # <<0, 0>>
  /\ qty[1] = 18
  /\ qty[2] = 72
  /\ tier = <<18, 72>>

---------------------------------------------------------------------------
(* C1 *)

\* C1: in the per-combo updateSummary, grandTotalItems is exactly the number
\* of rows in the groups whose count is >= 6, and a group with count < 6
\* adds nothing to grandTotalItems, grandTotalCost or grandTotalEmbroidery:
\* cost and embroidery are the sums over the rows of the fulfilled groups.
C1_TotalsCountFulfilledOnly ==
  Computed =>
    /\ summary.grandTotalItems = Cardinality(Fulfilled(data))
    /\ summary.grandTotalItems =
         SumOver({j \in 1..Len(summary.comboRows) : summary.comboRows[j].count >= 6},
                 [j \in 1..Len(summary.comboRows) |-> summary.comboRows[j].count])
    /\ summary.grandTotalCost =
         SumOver(Fulfilled(data),
                 [i \in Fulfilled(data) |->
                    UnitPrice(data[i][ProductCol],
                              getPriceTier(Cardinality(RowsOfKey(data, KeyOfRow(data[i])))))])
    /\ summary.grandTotalEmbroidery =
         EMBROIDERY_FEE
           * Cardinality({i \in Fulfilled(data) : HasEmbroidery(data[i][EmbCol])})

C1_Witness ==
  /\ Computed
  /\ summary.grandTotalItems = 6
  /\ summary.grandTotalCost > 0
  /\ summary.hasUnfulfilled
  /\ \E j \in 1..Len(summary.comboRows) :
        summary.comboRows[j].count < 6 /\ summary.comboRows[j].embroideryCount > 0

---------------------------------------------------------------------------
(* C3 *)

\* The counts of an aggregate, by key.
CountsOf(pcd) == [k \in DOMAIN pcd |-> <<pcd[k].count, pcd[k].embroideryCount>>]

\* The data rows of rows in the order f gives.
Permuted(rows, f) == <<rows[1]>> \o [i \in 1..(Len(rows) - 1) |-> rows[f[i] + 1]]

\* C3: aggregation in updateSummary is order-independent: every permutation
\* of the data rows gives the same mapping from key to (count,
\* embroideryCount), where rows with an empty product are skipped and
\* embroideryCount counts the rows whose Embroidered Name is non-empty after
\* trimming.
C3_AggregationOrderIndependent ==
  Computed =>
    /\ \A f \in Permutations(1..(Len(data) - 1)) :
         CountsOf(Aggregate(Permuted(data, f), 2, NoGroups))
           = CountsOf(summary.productColorData)
    /\ DOMAIN summary.productColorData = {KeyOfRow(data[i]) : i \in Counted(data)}
    /\ \A k \in DOMAIN summary.productColorData :
         /\ summary.productColorData[k].count = Cardinality(RowsOfKey(data, k))
         /\ summary.productColorData[k].embroideryCount = Cardinality(EmbRowsOfKey(data, k))

C3_Witness ==
  /\ Computed
  /\ Len(data) = 5
  /\ data[2][ProductCol] = ""
  /\ data[3][EmbCol] = " "
  /\ data[4][EmbCol] = "Sam"
  /\ KeyOfRow(data[5]) = KeyOfRow(data[3])
  /\ KeyOfRow(data[4]) # KeyOfRow(data[3])

---------------------------------------------------------------------------
(* C4 *)

---------------------------------------------------------------------------
(* C5 *)

\* The rows of a read that carry the name n (each call of the concurrent
\* specification submits under its own name).
NamedRows(rows, n) == {i \in 1..Len(rows) : rows[i][2] = n}
NamedOrders(orders, n) == {i \in 1..Len(orders) : orders[i]["Name"] = n}

AllOrNone(count, p) ==
  proc[p].pc # "idle" => count \in {0, Len(PostData(proc[p])["items"])}

\* C5: under any interleaving of a doPost submission with doGet or
\* updateSummary reads of the Orders sheet, every read observes, for each
\* submission, either all of its line-item rows or none of them.
C5_ReadsSeeWholeSubmissions ==
  \A p \in Procs :
    /\ AllOrNone(Cardinality(NamedOrders(getResp, p)), p)
    /\ AllOrNone(Cardinality(NamedRows(data, p)), p)

---------------------------------------------------------------------------
(* C6 *)

Malformed(contents) == ~contents.json \/ "items" \notin DOMAIN contents.value

\* C6: when doPost receives a malformed payload (contents that do not parse
\* as JSON, or a parsed object with no items list), it responds with status
\* "error" and the store holds exactly the rows it held before the call.
C6_MalformedLeavesStoreUnchanged ==
  \A n \in 1..Len(since) :
    Malformed(since[n].contents) =>
      /\ since[n].resp.status = "error"
      /\ since[n].after = since[n].before

---------------------------------------------------------------------------
(* C7 *)

\* The order record of one item of a submission.
ExpectedOrder(timestamp, d, item) ==
     ("Timestamp" :> timestamp) @@ ("Name" :> d["name"]) @@ ("Phone" :> d["phone"])
  @@ ("Email" :> d["email"]) @@ ("Position" :> d["position"])
  @@ ("Product" :> item["product"]) @@ ("Style" :> item["style"])
  @@ ("Size" :> item["size"]) @@ ("Color" :> item["color"]) @@ ("Logo" :> item["logo"])
  @@ ("Embroidered Name" :>
        IF "embroideredName" \in DOMAIN item THEN item["embroideredName"] ELSE "")
  @@ ("Thread Color" :>
        IF "threadColor" \in DOMAIN item THEN item["threadColor"] ELSE "")

\* C7: after a doPost of a submission with N line items that returns status
\* ok, the next doGet returns the records of the doGet before it followed by
\* exactly N more, one per item in item order, each with the item's fields
\* unchanged, the submission's name, phone, email and position, and the one
\* timestamp of the call.
C7_RoundTrip ==
  (Len(between) = 1 /\ between[1].resp.status = "ok") =>
    LET d == between[1].contents.value
    IN  getResp = prevGet \o [k \in 1..Len(d["items"]) |->
                                ExpectedOrder(between[1].timestamp, d, d["items"][k])]

C7_Witness ==
  /\ Len(between) = 1
  /\ between[1].resp.status = "ok"
  /\ Len(between[1].contents.value["items"]) = 2
  /\ Len(prevGet) = 1
  /\ Len(getResp) = 3
  /\ getResp[1]["Timestamp"] # getResp[3]["Timestamp"]

---------------------------------------------------------------------------
(* C8 *)

\* C8: the grouping key is unique per group: two rows with a product are
\* counted in the same group if and only if they have the same product and
\* the same normalized color, so updateSummary holds one group for each pair
\* (product, normalized color) among the rows, with that pair's row count.
C8_KeyUniquePerGroup ==
  Computed =>
    /\ \A i, j \in Counted(data) :
         KeyOfRow(data[i]) = KeyOfRow(data[j]) <=> GroupOfRow(data[i]) = GroupOfRow(data[j])
    /\ Cardinality(DOMAIN summary.productColorData)
         = Cardinality({GroupOfRow(data[i]) : i \in Counted(data)})
    /\ \A i \in Counted(data) :
         \E k \in DOMAIN summary.productColorData :
           /\ summary.productColorData[k].product = data[i][ProductCol]
           /\ summary.productColorData[k].color = normalizeColor(data[i][ColorCol])
           /\ summary.productColorData[k].count
                = Cardinality({j \in Counted(data) : GroupOfRow(data[j]) = GroupOfRow(data[i])})

---------------------------------------------------------------------------
(* C9 *)

\* The breakdown table of the grid: the rows between the column header and
\* the blank row before the totals.
Table == SubSeq(summary.output, summary.tableHeader + 1, summary.totalsTitle - 2)

IsData(r) == r # Blank7
TableData == SelectSeq(Table, IsData)
CellKey(r) == r[1] \o <<Bar>> \o r[2]

\* C9: the data rows of the breakdown table are in non-decreasing order of
\* their grouping key; a blank row stands between two consecutive data rows
\* exactly when their product differs, never before the first; hence the rows
\* of one product are contiguous and the blank rows inside the table number
\* the distinct products minus one.
C9_SortedAndSeparated ==
  Computed =>
    /\ \A n \in 1..(Len(TableData) - 1) :
         ~StrLess(CellKey(TableData[n + 1]), CellKey(TableData[n]))
    /\ Table # <<>> => IsData(Table[1]) /\ IsData(Table[Len(Table)])
    /\ \A n \in 1..(Len(Table) - 1) :
         IF IsData(Table[n]) /\ IsData(Table[n + 1])
         THEN Table[n][1] = Table[n + 1][1]
         ELSE /\ IsData(Table[n]) \/ IsData(Table[n + 1])
              /\ ~IsData(Table[n]) => Table[n - 1][1] # Table[n + 1][1]
    /\ \A a, b, c \in 1..Len(TableData) :
         (a < b /\ b < c /\ TableData[a][1] = TableData[c][1])
           => TableData[b][1] = TableData[a][1]
    /\ Table # <<>> =>
         Len(Table) - Len(TableData)
             = Cardinality({TableData[n][1] : n \in 1..Len(TableData)}) - 1

---------------------------------------------------------------------------
(* C10 *)

\* C10: after any interleaving of doPost calls the Orders sheet holds the
\* 12-column header row exactly once and as its first row.
C10_HeaderOnceAndFirst ==
  ((\A p \in Procs : proc[p].pc \in {"idle", "done"}) /\ Len(sheet) > 0) =>
    /\ sheet[1] = HEADER
    /\ \A i \in 2..Len(sheet) : sheet[i] # HEADER

---------------------------------------------------------------------------
(* C11 *)

\* The rows a completed doPost call added to the sheet, the header apart.
ItemRowsAdded(call) ==
  SelectSeq(SubSeq(call.after, Len(call.before) + 1, Len(call.after)),
            LAMBDA r : r # HEADER)

\* C11: the status doPost returns agrees with the store: a call that
\* returns status ok has appended exactly one row for each item of the
\* submission, and a call that returns status error has appended no
\* line-item row of it, also when the failure occurs while iterating the
\* items (an item list whose second element is null).
C11_StatusAgreesWithStore ==
  \A n \in 1..Len(since) :
    /\ since[n].resp.status = "ok" =>
         Len(ItemRowsAdded(since[n])) = Len(since[n].contents.value["items"])
    /\ since[n].resp.status = "error" => ItemRowsAdded(since[n]) = <<>>

====
